---- MODULE Spec2Model ----
(***************************************************************************)
(* Model of halfpipe/stats/design.py: group_design and its helpers, and   *)
(* of halfpipe/logging/context.py: the singleton logging context.         *)
(*                                                                         *)
(* Text (column names, levels, contrast names) is a sequence of one-       *)
(* character strings, so that str.capitalize, the f-string formats and the *)
(* lexicographic order of category levels are computed, not assumed.      *)
(* A subject id is a sequence of tokens; the token "sub-" stands for one   *)
(* occurrence of that substring.                                           *)
(* A table cell is a record [na, v]: na is TRUE for a missing cell (NaN).  *)
(* A coefficient of a contrast is a rational <<numerator, denominator>>.   *)
(***************************************************************************)
EXTENDS Integers, Sequences, FiniteSets, TLC

VARIABLES
    pc,               \* position inside group_design
    spreadsheet,      \* rows returned by loadspreadsheet
    variabledicts,    \* argument of group_design
    contrastdicts,    \* argument of group_design
    subjects,         \* argument of group_design
    dataframe,        \* local of group_design (after line 175, then line 180)
    dmat,             \* local of group_design (line 190)
    contrast_matrices,\* local of group_design (line 206)
    result,           \* the returned tuple, or the raised exception
    cls_instance,     \* context._instance: None or the context object
    rlock,            \* the owner of rlock, 0 when it is free
    threads,          \* per thread: position inside a classmethod of context
    history           \* what has happened so far: counts and teardown events

designvars == <<pc, spreadsheet, variabledicts, contrastdicts, subjects,
                dataframe, dmat, contrast_matrices, result>>

logvars == <<cls_instance, rlock, threads, history>>

vars == <<pc, spreadsheet, variabledicts, contrastdicts, subjects,
          dataframe, dmat, contrast_matrices, result,
          cls_instance, rlock, threads, history>>

----------------------------------------------------------------------------
(* Sequences and text                                                      *)

Range(s) == {s[i] : i \in DOMAIN s}

RECURSIVE ConcatAll(_)
ConcatAll(ss) == IF ss = <<>> THEN <<>> ELSE Head(ss) \o ConcatAll(Tail(ss))

RECURSIVE SumSeq(_)
SumSeq(s) == IF s = <<>> THEN 0 ELSE Head(s) + SumSeq(Tail(s))

\* the characters of the model's texts, in ASCII order
Ascii ==
    <<"-", ".", "0", "1", "2", "3", "4", "5", "6", "7", "8", "9",
      "A", "B", "C", "D", "E", "F", "G", "H", "I", "J", "K", "L", "M",
      "N", "O", "P", "Q", "R", "S", "T", "U", "V", "W", "X", "Y", "Z",
      "[", "]", "_",
      "a", "b", "c", "d", "e", "f", "g", "h", "i", "j", "k", "l", "m",
      "n", "o", "p", "q", "r", "s", "t", "u", "v", "w", "x", "y", "z">>

Ord(c) == CHOOSE i \in DOMAIN Ascii : Ascii[i] = c

UpperA == Ord("A")
LowerA == Ord("a")
IsUpper(c) == Ord(c) >= UpperA /\ Ord(c) < UpperA + 26
IsLower(c) == Ord(c) >= LowerA /\ Ord(c) < LowerA + 26

\* str.upper and str.lower on one character
CharUpper(c) == IF IsLower(c) THEN Ascii[Ord(c) - LowerA + UpperA] ELSE c
CharLower(c) == IF IsUpper(c) THEN Ascii[Ord(c) - UpperA + LowerA] ELSE c

\* str.lower (line 219)
StrLower(s) == [i \in DOMAIN s |-> CharLower(s[i])]

\* str.capitalize (lines 128, 139): first character upper, the rest lower
Capitalize(s) ==
    [i \in DOMAIN s |-> IF i = 1 THEN CharUpper(s[i]) ELSE CharLower(s[i])]

\* the order of Python strings, used by pandas to sort categories
RECURSIVE StrLess(_, _)
StrLess(a, b) ==
    IF a = <<>> THEN b # <<>>
    ELSE IF b = <<>> THEN FALSE
    ELSE IF Head(a) # Head(b) THEN Ord(Head(a)) < Ord(Head(b))
    ELSE StrLess(Tail(a), Tail(b))

RECURSIVE SortedStrs(_)
SortedStrs(S) ==
    IF S = {} THEN <<>>
    ELSE LET m == CHOOSE x \in S : \A y \in S \ {x} : StrLess(x, y)
         IN  <<m>> \o SortedStrs(S \ {m})

Digit(d) == Ascii[Ord("0") + d]

\* decimal digits of a natural number
RECURSIVE Decimal(_)
Decimal(n) == IF n < 10 THEN <<Digit(n)>> ELSE Decimal(n \div 10) \o <<Digit(n % 10)>>

\* a format without the zero padding: f"{i:d}"
FormatNoPadding(i) == Decimal(i)

\* f"{i:02d}" (line 155)
Format02d(i) == IF i < 10 THEN <<"0">> \o Decimal(i) ELSE Decimal(i)

\* f"{contrast_name}_{i:d}" (line 145)
TName(contrast_name, i) == contrast_name \o <<"_">> \o Decimal(i)

----------------------------------------------------------------------------
(* Rationals: the coefficients of contrast vectors                         *)

Abs(x) == IF x < 0 THEN -x ELSE x

RECURSIVE Gcd(_, _)
Gcd(a, b) == IF b = 0 THEN a ELSE Gcd(b, a % b)

Rat(n, d) ==
    LET g == Gcd(Abs(n), Abs(d))
        s == IF d < 0 THEN -1 ELSE 1
    IN  IF n = 0 THEN <<0, 1>> ELSE <<s * (n \div g), s * (d \div g)>>

RatOfInt(n) == <<n, 1>>
RatAdd(p, q) == Rat(p[1] * q[2] + q[1] * p[2], p[2] * q[2])
RatMul(p, q) == Rat(p[1] * q[1], p[2] * q[2])

RECURSIVE RatSum(_)
RatSum(s) == IF s = <<>> THEN <<0, 1>> ELSE RatAdd(Head(s), RatSum(Tail(s)))

----------------------------------------------------------------------------
(* Inputs                                                                  *)

NumRows == 4      \* rows of the spreadsheet

SubName == <<"S", "u", "b">>
AgeName == <<"A", "g", "e">>
GroupName == <<"G", "r", "o", "u", "p">>
SiteName == <<"S", "i", "t", "e">>
NanStr == <<"n", "a", "n">>          \* str(float("nan"))
InterceptName == <<"I", "n", "t", "e", "r", "c", "e", "p", "t">>  \* patsy's name of Term([])
LevelA == <<"a">>
LevelB == <<"b">>
LevelZ == <<"z">>
LevelX == <<"x">>
LevelY == <<"y">>
AvBName == <<"A", "v", "B">>

NA == [na |-> TRUE, v |-> <<>>]
Val(x) == [na |-> FALSE, v |-> x]

VarId == [name |-> SubName, type |-> "id"]
VarAge == [name |-> AgeName, type |-> "continuous"]
VarGroup == [name |-> GroupName, type |-> "categorical"]
VarSite == [name |-> SiteName, type |-> "categorical"]

Infer(variable) ==
    [type |-> "infer", name |-> <<>>, variable |-> <<variable>>, values |-> <<>>]
\* values is the dict of the spec in insertion order: <<level, weight>> pairs
TContrast(name, variable, values) ==
    [type |-> "t", name |-> name, variable |-> <<variable>>, values |-> values]

\* The label of the i-th row; every id of the spreadsheet is written
\* "sub-<label>", the subject list holds the bare labels.
Label(i) == Decimal(i)
AbsentLabel == <<"x">>

\* the kinds of row over the given cells, in a fixed order
RowKinds(ages, groups, sites) ==
    LET RECURSIVE Enum(_)
        Enum(T) == IF T = {} THEN <<>>
                   ELSE LET x == CHOOSE y \in T : TRUE IN <<x>> \o Enum(T \ {x})
    IN  Enum(ages \X groups \X sites)

\* Spreadsheets of n rows with the columns Sub, Age, Group and Site. The rows
\* are enumerated up to their order in the file (no operation reads a row by
\* position: rows are looked up by id); the subject lists supply the orders.
Sheets(n, ages, groups, sites) ==
    LET kinds == RowKinds(ages, groups, sites)
    IN  { [i \in 1..n |->
              [id |-> <<"sub-">> \o Label(i),
               cells |-> (AgeName :> kinds[f[i]][1]) @@ (GroupName :> kinds[f[i]][2])
                         @@ (SiteName :> kinds[f[i]][3])]]
          : f \in {g \in [1..n -> DOMAIN kinds] :
                      \A i \in 1..(n - 1) : g[i] <= g[i + 1]} }

AgeValues == {1, 2}
AgeCells == {NA} \cup {Val(a) : a \in AgeValues}
GroupCells == {NA, Val(LevelA), Val(LevelB)}

Spreadsheets == Sheets(NumRows, AgeCells, GroupCells, {Val(LevelX)})

VariableLists ==
    { <<VarId, VarAge, VarGroup>>,
      <<VarGroup, VarId, VarAge>>,
      <<VarAge, VarGroup>> }

Weights1 == << <<LevelA, 1>>, <<LevelB, -1>> >>
Weights2 == << <<LevelZ, 2>>, <<LevelB, 1>> >>
Weights3 == << <<NanStr, -1>>, <<LevelA, 2>>, <<LevelB, -1>> >>

ContrastLists ==
    { <<>>,
      <<Infer(AgeName)>>,
      <<Infer(GroupName)>>,
      <<Infer(AgeName), Infer(GroupName)>>,
      <<Infer(GroupName), TContrast(AvBName, GroupName, Weights1)>>,
      <<TContrast(AvBName, GroupName, Weights2), Infer(AgeName)>>,
      <<TContrast(AvBName, GroupName, Weights3), Infer(GroupName), Infer(AgeName)>> }

\* subject lists without repetition: all rows in file order, all rows in
\* reverse order, all rows but the first, and a list naming an absent id
SubjectLists ==
    { [i \in 1..NumRows |-> Label(i)],
      [i \in 1..NumRows |-> Label(NumRows + 1 - i)],
      [i \in 1..(NumRows - 1) |-> Label(i + 1)],
      <<Label(1), AbsentLabel, Label(2)>> }

----------------------------------------------------------------------------
(* _prepare_data_frame                                                     *)

\* str(id).startswith("sub-") (line 59)
StartsWithSub(id) == id # <<>> /\ id[1] = "sub-"

\* str(id).replace("sub-", "") (line 61): removes every occurrence
ReplaceSub(id) == SelectSeq(id, LAMBDA t : t # "sub-")

\* lines 50-56: the name of the first variable of type id, <<>> for None
IdColumn(vds) ==
    LET I == {i \in DOMAIN vds : vds[i].type = "id"}
    IN  IF I = {} THEN <<>>
        ELSE vds[CHOOSE i \in I : \A j \in I : i <= j].name

\* lines 58-63: the index of the raw table
NormalizeIds(rows) ==
    IF \A i \in DOMAIN rows : StartsWithSub(rows[i].id)
    THEN [i \in DOMAIN rows |-> [rows[i] EXCEPT !.id = ReplaceSub(@)]]
    ELSE rows

\* lines 65-74
ColumnsOfType(vds, t) ==
    LET sel == SelectSeq(vds, LAMBDA vd : vd.type = t)
    IN  [i \in DOMAIN sel |-> sel[i].name]

ColumnsInOrder(vds) ==
    LET sel == SelectSeq(vds, LAMBDA vd : vd.type \in {"continuous", "categorical"})
    IN  [i \in DOMAIN sel |-> sel[i].name]

\* frame.loc[labels]: for every label in turn, the rows of that index value
Loc(rows, labels) ==
    ConcatAll([k \in DOMAIN labels |-> SelectSeq(rows, LAMBDA r : r.id = labels[k])])

\* .loc raises KeyError when a label is not in the index
LocFails(rows, labels) ==
    \E k \in DOMAIN labels : \A i \in DOMAIN rows : rows[i].id # labels[k]

\* astype(str) (line 89): a missing cell becomes the text "nan"
AsStr(cell) == IF cell.na THEN Val(NanStr) ELSE cell

\* frame[columns] (lines 77-78)
Project(rows, columns) ==
    [i \in DOMAIN rows |->
        [id |-> rows[i].id,
         cells |-> [c \in Range(columns) |-> rows[i].cells[c]]]]

\* frame.astype(str) (line 89)
FrameAsStr(rows) ==
    [i \in DOMAIN rows |->
        [id |-> rows[i].id,
         cells |-> [c \in DOMAIN rows[i].cells |-> AsStr(rows[i].cells[c])]]]

\* pd.merge(categorical, continuous, how="outer", left_index=True,
\* right_index=True) followed by .loc[subjects]: for every subject in turn,
\* each categorical row of that id joined with each continuous row of that id
MergeLoc(categorical, continuous, labels) ==
    LET Joined(s) ==
            LET l == SelectSeq(categorical, LAMBDA r : r.id = s)
                r == SelectSeq(continuous, LAMBDA x : x.id = s)
            IN  [i \in 1..(Len(l) * Len(r)) |->
                    [id |-> s,
                     cells |-> l[((i - 1) \div Len(r)) + 1].cells
                               @@ r[((i - 1) % Len(r)) + 1].cells]]
    IN  ConcatAll([k \in DOMAIN labels |-> Joined(labels[k])])

\* the categories of a column of dtype category: its values, sorted
Categories(rows, column) ==
    SortedStrs({rows[i].cells[column].v : i \in DOMAIN rows})

\* The result of _prepare_data_frame: the data frame, or the exception raised
PrepareDataFrame(sheet, vds, subs) ==
    IF IdColumn(vds) = <<>> THEN [ok |-> FALSE, error |-> "AssertionError"]
    ELSE
    LET raw == NormalizeIds(sheet)
        continuous_columns == ColumnsOfType(vds, "continuous")
        categorical_columns == ColumnsOfType(vds, "categorical")
    IN  IF LocFails(raw, subs) THEN [ok |-> FALSE, error |-> "KeyError"]
        ELSE
        LET continuous == Loc(Project(raw, continuous_columns), subs)
            categorical == FrameAsStr(Loc(Project(raw, categorical_columns), subs))
            rows == MergeLoc(categorical, continuous, subs)
        IN  [ok |-> TRUE,
             columns |-> ColumnsInOrder(vds),
             numeric |-> Range(continuous_columns),
             categories |-> [c \in Range(categorical_columns) |->
                                Categories(categorical, c)],
             rows |-> rows]

----------------------------------------------------------------------------
(* group_design                                                            *)

None == [ok |-> FALSE, error |-> "None"]

----------------------------------------------------------------------------
(* halfpipe/logging/context.py: the state of the module once imported      *)

NumThreads == 2     \* threads calling the classmethods of context
MaxCalls == 2       \* calls made by each thread
MaxMessages == 1    \* log records put on the queue by the handlers

Threads == 1..NumThreads

\* class NullQueue (lines 22-27)
NullQueue == [kind |-> "NullQueue", items |-> <<>>, closed |-> FALSE]

\* JoinableQueue(ctx=ctx) (line 51): items are the unfinished tasks
NewJoinableQueue == [kind |-> "JoinableQueue", items |-> <<>>, closed |-> FALSE]

\* isinstance(queue, JoinableQueue) (lines 50, 65)
IsJoinableQueue(queue) == queue.kind = "JoinableQueue"

\* ctx.Process(target=run_worker, args=(instance._queue,)) (line 53)
NewProcess == [ok |-> TRUE, started |-> FALSE, exited |-> FALSE]

\* context.__init__ (lines 33-35)
NewContext == [queue |-> NullQueue, worker |-> None]

\* a thread between calls; entry is cls._instance as read at line 59
IdleThread == [pc |-> "idle", caller |-> "", calls |-> MaxCalls, entry |-> None]

\* _instance = None (line 31), rlock = RLock() (line 19), no call made
Imported ==
    /\ cls_instance = None
    /\ rlock = 0
    /\ threads = [t \in Threads |-> IdleThread]
    /\ history = [created |-> 0, started |-> 0, since |-> 0, completed |-> 0,
                  puts |-> 0, events |-> <<>>]

InitWith(sheets, vlists, clists, slists) ==
    /\ pc = "start"
    /\ spreadsheet \in sheets
    /\ variabledicts \in vlists
    /\ contrastdicts \in clists
    /\ subjects \in slists
    /\ dataframe = None
    /\ dmat = None
    /\ contrast_matrices = <<>>
    /\ result = None
    /\ Imported

Init == InitWith(Spreadsheets, VariableLists, ContrastLists, SubjectLists)

\* line 175
Prepare ==
    /\ pc = "start"
    /\ LET df == PrepareDataFrame(spreadsheet, variabledicts, subjects)
       IN  /\ dataframe' = df
           /\ IF df.ok
              THEN pc' = "prepared" /\ result' = result
              ELSE pc' = "raised" /\ result' = [ok |-> FALSE, error |-> df.error]
    /\ UNCHANGED <<spreadsheet, variabledicts, contrastdicts, subjects,
                   dmat, contrast_matrices>>
    /\ UNCHANGED logvars

\* pd.Series.nunique (line 178): the number of distinct values, NaN apart
NUnique(rows, column) ==
    Cardinality({rows[i].cells[column] : i \in DOMAIN rows} \ {NA})

\* line 178
ColumnsVarGt0(df) == [c \in Range(df.columns) |-> NUnique(df.rows, c) > 1]

\* line 180: dataframe.loc[:, columns_var_gt_0]
DropColumns(df, keep) ==
    LET columns == SelectSeq(df.columns, LAMBDA c : keep[c])
    IN  [df EXCEPT
            !.columns = columns,
            !.rows = [i \in DOMAIN df.rows |->
                         [id |-> df.rows[i].id,
                          cells |-> [c \in Range(columns) |-> df.rows[i].cells[c]]]]]

\* _generate_rhs raises KeyError when an infer spec names no column (line 111)
GenerateRhsFails(cds, columns_var_gt_0) ==
    \E i \in DOMAIN cds :
        /\ cds[i].type = "infer"
        /\ \E k \in DOMAIN cds[i].variable :
              cds[i].variable[k] \notin DOMAIN columns_var_gt_0

\* a term for every column with variance, whether an infer spec names it or not
GenerateRhsAllColumns(cds, columns_var_gt_0) ==
    LET RECURSIVE Enum(_)
        Enum(T) == IF T = {} THEN <<>>
                   ELSE LET x == CHOOSE y \in T : TRUE IN << <<x>> >> \o Enum(T \ {x})
    IN  << <<>> >> \o Enum({c \in DOMAIN columns_var_gt_0 : columns_var_gt_0[c]})

\* _generate_rhs: a term is the list of its factor names, <<>> the intercept
GenerateRhs(cds, columns_var_gt_0) ==
    LET kept == SelectSeq(cds, LAMBDA cd :
                    /\ cd.type = "infer"
                    /\ \A k \in DOMAIN cd.variable : columns_var_gt_0[cd.variable[k]])
    IN  << <<>> >> \o [i \in DOMAIN kept |-> kept[i].variable]

\* patsy _make_subterm_infos, for terms of at most one factor: the terms
\* without a numeric factor come first (the intercept before the categorical
\* terms), then the numeric terms, each class in the order of rhs
TermOrder(rhs, df) ==
    LET IsNum(t) == \E k \in DOMAIN t : t[k] \in df.numeric
        nonum == SelectSeq(rhs, LAMBDA t : ~IsNum(t))
    IN  SelectSeq(nonum, LAMBDA t : Len(t) = 0)
        \o SelectSeq(nonum, LAMBDA t : Len(t) > 0)
        \o SelectSeq(rhs, IsNum)

\* patsy's column name of a treatment-coded level: "Group[T.b]"
TreatmentName(factor, level) == factor \o <<"[", "T", ".">> \o level \o <<"]">>

\* the column names of one term: the intercept, a categorical factor coded
\* against its first category, or a numeric factor
TermColumns(t, df) ==
    IF t = <<>> THEN <<InterceptName>>
    ELSE IF t[1] \in df.numeric THEN <<t[1]>>
    ELSE LET levels == df.categories[t[1]]
         IN  [k \in 1..(Len(levels) - 1) |-> TreatmentName(t[1], levels[k + 1])]

\* the values of one term for the cells of one row
TermValues(t, df, cells) ==
    IF t = <<>> THEN <<1>>
    ELSE IF t[1] \in df.numeric THEN <<cells[t[1]].v>>
    ELSE LET levels == df.categories[t[1]]
         IN  [k \in 1..(Len(levels) - 1) |->
                 IF cells[t[1]].v = levels[k + 1] THEN 1 ELSE 0]

\* design_info: the terms in patsy's order, each with its name and columns
DesignInfo(rhs, df) ==
    LET terms == TermOrder(rhs, df)
    IN  [i \in DOMAIN terms |->
            [term |-> terms[i],
             name |-> IF terms[i] = <<>> THEN InterceptName ELSE terms[i][1],
             columns |-> TermColumns(terms[i], df)]]

\* one row of the design matrix
EncodeRow(design_info, df, cells) ==
    ConcatAll([i \in DOMAIN design_info |-> TermValues(design_info[i].term, df, cells)])

\* patsy NA_action="drop": a row with a missing value in a factor of the
\* model is left out of the design matrix
HasNA(design_info, cells) ==
    \E i \in DOMAIN design_info :
        \E k \in DOMAIN design_info[i].term : cells[design_info[i].term[k]].na

\* dmatrix(modelDesc, dataframe, return_type="dataframe") (line 190)
DMatrix(rhs, df) ==
    LET design_info == DesignInfo(rhs, df)
        kept == SelectSeq(df.rows, LAMBDA r : ~HasNA(design_info, r.cells))
    IN  [ok |-> TRUE,
         design_info |-> design_info,
         columns |-> ConcatAll([i \in DOMAIN design_info |-> design_info[i].columns]),
         rows |-> [i \in DOMAIN kept |->
                      [id |-> kept[i].id,
                       vals |-> EncodeRow(design_info, df, kept[i].cells)]]]

\* _check_multicollinearity changes nothing; np.max and np.min of the
\* singular values raise ValueError when the matrix has no row
CheckMulticollinearityFails(matrix) == Len(matrix.rows) = 0

\* lines 177-191
Design ==
    /\ pc = "prepared"
    /\ LET columns_var_gt_0 == ColumnsVarGt0(dataframe)
           df == DropColumns(dataframe, columns_var_gt_0)
       IN  /\ dataframe' = df
           /\ IF GenerateRhsFails(contrastdicts, columns_var_gt_0)
              THEN /\ pc' = "raised"
                   /\ result' = [ok |-> FALSE, error |-> "KeyError"]
                   /\ dmat' = dmat
              ELSE LET m == DMatrix(GenerateRhs(contrastdicts, columns_var_gt_0), df)
                   IN  /\ dmat' = m
                       /\ IF CheckMulticollinearityFails(m)
                          THEN /\ pc' = "raised"
                               /\ result' = [ok |-> FALSE, error |-> "ValueError"]
                          ELSE /\ pc' = "designed"
                               /\ result' = result
    /\ UNCHANGED <<spreadsheet, variabledicts, contrastdicts, subjects,
                   contrast_matrices>>
    /\ UNCHANGED logvars

\* Series.unique: the values of a column in the order of first appearance
Unique(rows, column) ==
    LET first == SelectSeq([i \in DOMAIN rows |-> i], LAMBDA i :
                     \A j \in 1..(i - 1) : rows[j].cells[column] # rows[i].cells[column])
    IN  [k \in DOMAIN first |-> rows[first[k]].cells[column]]

\* itertools.product of a list of lists: the last list varies fastest
RECURSIVE Product(_)
Product(lists) ==
    IF lists = <<>> THEN << <<>> >>
    ELSE LET rest == Product(Tail(lists))
         IN  ConcatAll([i \in DOMAIN Head(lists) |->
                 [j \in DOMAIN rest |-> <<Head(lists)[i]>> \o rest[j]]])

\* lines 194-202: the reference grid, one cell per column of the data frame
Grid(df) ==
    LET unique_values_categorical ==
            [k \in DOMAIN df.columns |->
                IF df.columns[k] \in df.numeric THEN <<Val(0)>>
                ELSE Unique(df.rows, df.columns[k])]
        tuples == Product(unique_values_categorical)
    IN  [i \in DOMAIN tuples |->
            [c \in Range(df.columns) |->
                tuples[i][CHOOSE k \in DOMAIN df.columns : df.columns[k] = c]]]

\* line 203: the rows of the grid, encoded as the design matrix was
ReferenceDmat(m, df, grid) ==
    [i \in DOMAIN grid |-> EncodeRow(m.design_info, df, grid[i])]

\* the first column of the i-th term (term_name_slices)
SliceStart(design_info, i) ==
    SumSeq([j \in 1..(i - 1) |-> Len(design_info[j].columns)])

\* baseline contrasts over the columns of their own term only
BaselineContrastsOwnColumns(m) ==
    [i \in DOMAIN m.design_info |->
        LET field == m.design_info[i].name
            own == m.design_info[i].columns
        IN  [name |-> IF field = InterceptName THEN StrLower(field) ELSE field,
             columns |-> own,
             rows |-> [r \in DOMAIN own |->
                          [c \in DOMAIN own |->
                              IF c = r THEN RatOfInt(1) ELSE RatOfInt(0)]]]]

\* lines 208-220: for every term the constraint "its coefficients are zero",
\* one row per column of the term
BaselineContrasts(m) ==
    [i \in DOMAIN m.design_info |->
        LET start == SliceStart(m.design_info, i)
            field == m.design_info[i].name
        IN  [name |-> IF field = InterceptName THEN StrLower(field) ELSE field,
             columns |-> m.columns,
             rows |-> [r \in DOMAIN m.design_info[i].columns |->
                          [c \in DOMAIN m.columns |->
                              IF c = start + r THEN RatOfInt(1) ELSE RatOfInt(0)]]]]

\* the column sums, not divided by the number of rows
ColumnSums(rows, ncols) ==
    [c \in 1..ncols |-> RatOfInt(SumSeq([i \in DOMAIN rows |-> rows[i][c]]))]

\* Series.mean over a list of rows, column by column
ColumnMeans(rows, ncols) ==
    [c \in 1..ncols |-> Rat(SumSeq([i \in DOMAIN rows |-> rows[i][c]]), Len(rows))]

\* lines 224-254 for one spec of type t
LsmeansContrast(cd, m, df) ==
    LET variable == cd.variable[1]
        grid == Grid(df)
        reference_dmat == ReferenceDmat(m, df, grid)
        levels == Unique(df.rows, variable)
        variable_levels == [k \in DOMAIN levels |-> levels[k].v]
        Lsmeans(level) ==
            LET at == SelectSeq([i \in DOMAIN grid |-> i],
                                LAMBDA i : grid[i][variable].v = level)
            IN  ColumnMeans([k \in DOMAIN at |-> reference_dmat[at[k]]], Len(m.columns))
        picked == SelectSeq(cd.values, LAMBDA kv : kv[1] \in Range(variable_levels))
        contrast_vector ==
            [c \in DOMAIN m.columns |->
                RatSum([k \in DOMAIN picked |->
                    RatMul(RatOfInt(picked[k][2]), Lsmeans(picked[k][1])[c])])]
    IN  [name |-> cd.name, columns |-> m.columns, rows |-> <<contrast_vector>>]

\* line 224 raises ValueError unless the spec names one variable, line 225
\* raises KeyError when the data frame has no such column
LsmeansFails(cds, df) ==
    \E i \in DOMAIN cds :
        /\ cds[i].type = "t"
        /\ \/ Len(cds[i].variable) # 1
           \/ cds[i].variable[1] \notin Range(df.columns)

\* lines 222-254
LsmeansContrasts(cds, m, df) ==
    LET ts == SelectSeq(cds, LAMBDA cd : cd.type = "t")
    IN  [i \in DOMAIN ts |-> LsmeansContrast(ts[i], m, df)]

\* lines 193-254
Contrasts ==
    /\ pc = "designed"
    /\ IF LsmeansFails(contrastdicts, dataframe)
       THEN /\ pc' = "raised"
            /\ result' = [ok |-> FALSE, error |-> "KeyError"]
            /\ contrast_matrices' = BaselineContrasts(dmat)
       ELSE /\ pc' = "contrasted"
            /\ result' = result
            /\ contrast_matrices' =
                  BaselineContrasts(dmat) \o LsmeansContrasts(contrastdicts, dmat, dataframe)
    /\ UNCHANGED <<spreadsheet, variabledicts, contrastdicts, subjects, dataframe, dmat>>
    /\ UNCHANGED logvars

----------------------------------------------------------------------------
(* _make_contrasts_list and intercept_only_design                          *)

TEntry(name, columns, values) ==
    [name |-> name, type |-> "T", columns |-> columns, values |-> values,
     tcontrasts |-> <<>>]

FEntry(name, tcontrasts) ==
    [name |-> name, type |-> "F", columns |-> <<>>, values |-> <<>>,
     tcontrasts |-> tcontrasts]

\* lines 143-148: one T contrast per row, named by the row label; the blocks
\* of group_design (lines 216, 251) have the default labels 0, 1, ...
TContrastsOfBlock(block) ==
    [r \in DOMAIN block.rows |->
        TEntry(TName(Capitalize(block.name), r - 1), block.columns, block.rows[r])]

\* the names list also given the constituents of the F groups
MakeContrastsListNamingAll(blocks) ==
    LET single == SelectSeq(blocks, LAMBDA b : Len(b.rows) = 1)
        multi == SelectSeq(blocks, LAMBDA b : Len(b.rows) > 1)
        contrasts ==
            [i \in DOMAIN single |->
                TEntry(Capitalize(single[i].name), single[i].columns, single[i].rows[1])]
            \o ConcatAll([i \in DOMAIN multi |->
                TContrastsOfBlock(multi[i])
                \o <<FEntry(Capitalize(multi[i].name), TContrastsOfBlock(multi[i]))>>])
        contrast_names ==
            [i \in DOMAIN single |-> Capitalize(single[i].name)]
            \o ConcatAll([i \in DOMAIN multi |->
                   [r \in DOMAIN multi[i].rows |->
                       TName(Capitalize(multi[i].name), r - 1)]
                   \o <<Capitalize(multi[i].name)>>])
    IN  [contrasts |-> contrasts,
         contrast_numbers |-> [i \in DOMAIN contrast_names |-> Format02d(i)],
         contrast_names |-> contrast_names]

\* one loop over the blocks, every block emitted where the input has it
MakeContrastsListInputOrder(blocks) ==
    LET contrasts ==
            ConcatAll([i \in DOMAIN blocks |->
                IF Len(blocks[i].rows) = 1
                THEN <<TEntry(Capitalize(blocks[i].name), blocks[i].columns,
                              blocks[i].rows[1])>>
                ELSE TContrastsOfBlock(blocks[i])
                     \o <<FEntry(Capitalize(blocks[i].name),
                                 TContrastsOfBlock(blocks[i]))>>])
        contrast_names == [i \in DOMAIN blocks |-> Capitalize(blocks[i].name)]
    IN  [contrasts |-> contrasts,
         contrast_numbers |-> [i \in DOMAIN contrast_names |-> Format02d(i)],
         contrast_names |-> contrast_names]

\* lines 127-157
MakeContrastsList(blocks) ==
    LET single == SelectSeq(blocks, LAMBDA b : Len(b.rows) = 1)
        multi == SelectSeq(blocks, LAMBDA b : Len(b.rows) > 1)
        contrasts ==
            [i \in DOMAIN single |->
                TEntry(Capitalize(single[i].name), single[i].columns, single[i].rows[1])]
            \o ConcatAll([i \in DOMAIN multi |->
                TContrastsOfBlock(multi[i])
                \o <<FEntry(Capitalize(multi[i].name), TContrastsOfBlock(multi[i]))>>])
        contrast_names ==
            [i \in DOMAIN single |-> Capitalize(single[i].name)]
            \o [i \in DOMAIN multi |-> Capitalize(multi[i].name)]
    IN  [contrasts |-> contrasts,
         contrast_numbers |-> [i \in DOMAIN contrast_names |-> Format02d(i)],
         contrast_names |-> contrast_names]

LowerInterceptName == <<"i", "n", "t", "e", "r", "c", "e", "p", "t">>

\* lines 160-168
InterceptOnlyDesign(n) ==
    [ok |-> TRUE,
     regressors |-> [columns |-> <<LowerInterceptName>>,
                     values |-> (LowerInterceptName :> [i \in 1..n |-> 1])],
     contrasts |-> <<TEntry(LowerInterceptName, <<LowerInterceptName>>, <<RatOfInt(1)>>)>>,
     contrast_numbers |-> <<Format02d(1)>>,
     contrast_names |-> <<LowerInterceptName>>]

\* dmat.to_dict(orient="list", into=OrderedDict) (line 265)
ToDict(m) ==
    [columns |-> m.columns,
     values |-> [c \in Range(m.columns) |->
                    [i \in DOMAIN m.rows |->
                        m.rows[i].vals[CHOOSE k \in DOMAIN m.columns : m.columns[k] = c]]]]

\* line 256
Npts(m) == Len(m.rows)
Nevs(m) == Len(m.columns)

\* the size check with > in place of >=
DegenerateStrict(m) == Nevs(m) > Npts(m)

\* line 258
Degenerate(m) == Nevs(m) >= Npts(m)

\* lines 258-263
Fallback ==
    /\ pc = "contrasted"
    /\ Degenerate(dmat)
    /\ pc' = "returned_fallback"
    /\ result' = InterceptOnlyDesign(Len(subjects))
    /\ UNCHANGED <<spreadsheet, variabledicts, contrastdicts, subjects, dataframe,
                   dmat, contrast_matrices>>
    /\ UNCHANGED logvars

\* lines 265-270
Emit ==
    /\ pc = "contrasted"
    /\ ~Degenerate(dmat)
    /\ pc' = "returned"
    /\ result' = [ok |-> TRUE, regressors |-> ToDict(dmat)]
                 @@ MakeContrastsList(contrast_matrices)
    /\ UNCHANGED <<spreadsheet, variabledicts, contrastdicts, subjects, dataframe,
                   dmat, contrast_matrices>>
    /\ UNCHANGED logvars

Next == Prepare \/ Design \/ Contrasts \/ Fallback \/ Emit

Spec == Init /\ [][Next]_vars

----------------------------------------------------------------------------
(* group_design on tables with two categorical covariates                  *)

SpreadsheetsLs ==
    Sheets(NumRows, {Val(a) : a \in AgeValues}, GroupCells, {Val(LevelX), Val(LevelY)})

XYName == <<"X", "Y">>
WeightsSite == << <<LevelY, 1>>, <<LevelX, 2>> >>

ContrastListsLs ==
    { <<Infer(GroupName), Infer(SiteName), TContrast(AvBName, GroupName, Weights1)>>,
      <<Infer(SiteName), Infer(AgeName), TContrast(AvBName, GroupName, Weights2)>>,
      <<TContrast(AvBName, GroupName, Weights3), Infer(GroupName),
        TContrast(XYName, SiteName, WeightsSite)>>,
      <<Infer(GroupName), Infer(AgeName), TContrast(XYName, SiteName, WeightsSite)>> }

InitLs ==
    InitWith(SpreadsheetsLs, {<<VarId, VarAge, VarGroup, VarSite>>},
             ContrastListsLs, SubjectLists)

SpecLs == InitLs /\ [][Next]_vars

----------------------------------------------------------------------------
(* group_design on the scenario of ten subjects, Age and Group, infer Age  *)

Spreadsheets10 ==
    { [i \in 1..10 |->
          [id |-> <<"sub-">> \o Label(i),
           cells |-> (AgeName :> IF i \in missing THEN NA ELSE Val(IF i <= j THEN 1 ELSE 2))
                     @@ (GroupName :> Val(IF i <= k THEN LevelA ELSE LevelB))
                     @@ (SiteName :> Val(LevelX))]]
      : j \in 1..10, k \in 1..9, missing \in {{}, {3}, 2..9} }

SubjectLists10 ==
    { [i \in 1..10 |-> Label(i)],
      [i \in 1..10 |-> Label(11 - i)],
      <<Label(1), Label(10)>> }

Init10 ==
    InitWith(Spreadsheets10, {<<VarId, VarAge, VarGroup>>}, {<<Infer(AgeName)>>},
             SubjectLists10)

Spec10 == Init10 /\ [][Next]_vars

----------------------------------------------------------------------------
(* _make_contrasts_list on its own                                         *)

MaxBlocks == 3       \* contrast blocks in a list
MaxBlockRows == 3    \* rows of a contrast block

BlockColumns ==
    <<InterceptName>> \o [c \in 1..MaxBlockRows |-> TreatmentName(GroupName, Decimal(c))]

\* a block of k rows: row r tests column r + 1
Block(name, k) ==
    [name |-> name,
     columns |-> BlockColumns,
     rows |-> [r \in 1..k |->
                  [c \in DOMAIN BlockColumns |->
                      IF c = r + 1 THEN RatOfInt(1) ELSE RatOfInt(0)]]]

Blocks == {Block(name, k) : name \in {LowerInterceptName, GroupName, AvBName},
                            k \in 1..MaxBlockRows}

BlockLists == UNION {[1..n -> Blocks] : n \in 0..MaxBlocks}

InitList ==
    /\ pc = "blocks"
    /\ contrast_matrices \in BlockLists
    /\ spreadsheet = <<>>
    /\ variabledicts = <<>>
    /\ contrastdicts = <<>>
    /\ subjects = <<>>
    /\ dataframe = None
    /\ dmat = None
    /\ result = None
    /\ Imported

\* a call of _make_contrasts_list (lines 123-157)
MakeContrasts ==
    /\ pc = "blocks"
    /\ pc' = "listed"
    /\ result' = [ok |-> TRUE] @@ MakeContrastsList(contrast_matrices)
    /\ UNCHANGED <<spreadsheet, variabledicts, contrastdicts, subjects, dataframe,
                   dmat, contrast_matrices>>
    /\ UNCHANGED logvars

NextList == MakeContrasts

SpecList == InitList /\ [][NextList]_vars

----------------------------------------------------------------------------
(* The id normalization of _prepare_data_frame on its own                  *)

MaxIdLen == 3    \* tokens of a raw id
MaxIds == 2      \* rows of the raw table

\* raw ids: "sub-" may lead, recur, or be missing
IdTokens == {"sub-", "a"}

RawIds == UNION {[1..n -> IdTokens] : n \in 1..MaxIdLen}

\* the id column of the raw table (line 58)
IdTables == UNION {[1..n -> [id : RawIds]] : n \in 1..MaxIds}

InitIds ==
    /\ pc = "ids"
    /\ spreadsheet \in IdTables
    /\ variabledicts = <<>>
    /\ contrastdicts = <<>>
    /\ subjects = <<>>
    /\ dataframe = None
    /\ dmat = None
    /\ contrast_matrices = <<>>
    /\ result = None
    /\ Imported

\* lines 58-63: the id column is rewritten and becomes the index
SetIndex ==
    /\ pc = "ids"
    /\ pc' = "indexed"
    /\ dataframe' = NormalizeIds(spreadsheet)
    /\ UNCHANGED <<spreadsheet, variabledicts, contrastdicts, subjects,
                   dmat, contrast_matrices, result>>
    /\ UNCHANGED logvars

NextIds == SetIndex

SpecIds == InitIds /\ [][NextIds]_vars

----------------------------------------------------------------------------
(* The classmethods of context, one action per statement                   *)

InitLog ==
    /\ pc = "logging"
    /\ spreadsheet = <<>>
    /\ variabledicts = <<>>
    /\ contrastdicts = <<>>
    /\ subjects = <<>>
    /\ dataframe = None
    /\ dmat = None
    /\ contrast_matrices = <<>>
    /\ result = None
    /\ Imported

At(t, label) == threads[t].pc = label

Goto(t, label) == [threads EXCEPT ![t].pc = label]

\* the call returns: its locals are gone
Return(t) == [threads EXCEPT ![t] = [IdleThread EXCEPT !.calls = threads[t].calls]]

\* with rlock: an RLock is taken when it is free or owned by the caller
CanAcquire(t) == rlock \in {0, t}

\* a thread calls instance, setup_worker or teardown_worker
Call(t) ==
    /\ At(t, "idle")
    /\ threads[t].calls > 0
    /\ \E m \in {"instance", "setup_worker", "teardown_worker"} :
          threads' = [threads EXCEPT ![t] =
              [pc |-> IF m = "teardown_worker" THEN "line58" ELSE "line39",
               caller |-> m,
               calls |-> threads[t].calls - 1,
               entry |-> None]]
    /\ UNCHANGED <<cls_instance, rlock, history>>
    /\ UNCHANGED designvars

\* line 39: the check made without the lock
Line39(t) ==
    /\ At(t, "line39")
    /\ threads' = Goto(t, IF cls_instance = None THEN "line40" ELSE "line44")
    /\ UNCHANGED <<cls_instance, rlock, history>>
    /\ UNCHANGED designvars

\* line 40
Line40(t) ==
    /\ At(t, "line40")
    /\ CanAcquire(t)
    /\ rlock' = t
    /\ threads' = Goto(t, "line41")
    /\ UNCHANGED <<cls_instance, history>>
    /\ UNCHANGED designvars

\* a context made whatever _instance holds
NeedsCreateAlways(inst) == TRUE

\* line 41: the check repeated under the lock
NeedsCreate(inst) == inst = None

\* lines 41-42
Line41(t) ==
    /\ At(t, "line41")
    /\ IF NeedsCreate(cls_instance)
       THEN /\ cls_instance' = NewContext
            /\ history' = [history EXCEPT !.created = @ + 1]
       ELSE UNCHANGED <<cls_instance, history>>
    /\ threads' = Goto(t, "line43")
    /\ UNCHANGED rlock
    /\ UNCHANGED designvars

\* the end of the with block of line 40
Line43(t) ==
    /\ At(t, "line43")
    /\ rlock' = 0
    /\ threads' = Goto(t, "line44")
    /\ UNCHANGED <<cls_instance, history>>
    /\ UNCHANGED designvars

\* line 44, and line 48 when setup_worker made the call
Line44(t) ==
    /\ At(t, "line44")
    /\ threads' = IF threads[t].caller = "setup_worker" THEN Goto(t, "line49")
                  ELSE Return(t)
    /\ UNCHANGED <<cls_instance, rlock, history>>
    /\ UNCHANGED designvars

\* line 49
Line49(t) ==
    /\ At(t, "line49")
    /\ CanAcquire(t)
    /\ rlock' = t
    /\ threads' = Goto(t, "line50")
    /\ UNCHANGED <<cls_instance, history>>
    /\ UNCHANGED designvars

\* lines 50-51
Line50(t) ==
    /\ At(t, "line50")
    /\ IF ~IsJoinableQueue(cls_instance.queue)
       THEN cls_instance' = [cls_instance EXCEPT !.queue = NewJoinableQueue]
       ELSE UNCHANGED cls_instance
    /\ threads' = Goto(t, "line52")
    /\ UNCHANGED <<rlock, history>>
    /\ UNCHANGED designvars

\* lines 52-53
Line52(t) ==
    /\ At(t, "line52")
    /\ IF cls_instance.worker = None
       THEN /\ cls_instance' = [cls_instance EXCEPT !.worker = NewProcess]
            /\ threads' = Goto(t, "line54")
       ELSE /\ UNCHANGED cls_instance
            /\ threads' = Goto(t, "line55")
    /\ UNCHANGED <<rlock, history>>
    /\ UNCHANGED designvars

\* line 54: instance._worker.start()
Line54(t) ==
    /\ At(t, "line54")
    /\ cls_instance' = [cls_instance EXCEPT !.worker.started = TRUE]
    /\ history' = [history EXCEPT !.started = @ + 1, !.since = @ + 1]
    /\ threads' = Goto(t, "line55")
    /\ UNCHANGED rlock
    /\ UNCHANGED designvars

\* the end of the with block of line 49
Line55(t) ==
    /\ At(t, "line55")
    /\ rlock' = 0
    /\ threads' = Return(t)
    /\ UNCHANGED <<cls_instance, history>>
    /\ UNCHANGED designvars

\* line 58
Line58(t) ==
    /\ At(t, "line58")
    /\ CanAcquire(t)
    /\ rlock' = t
    /\ threads' = Goto(t, "line59")
    /\ UNCHANGED <<cls_instance, history>>
    /\ UNCHANGED designvars

\* lines 59-61
Line59(t) ==
    /\ At(t, "line59")
    /\ threads' = [threads EXCEPT
          ![t].entry = cls_instance,
          ![t].pc = IF cls_instance = None THEN "return" ELSE "line63"]
    /\ UNCHANGED <<cls_instance, rlock, history>>
    /\ UNCHANGED designvars

\* lines 63-66
Line63(t) ==
    /\ At(t, "line63")
    /\ IF cls_instance.worker = None \/ ~IsJoinableQueue(cls_instance.queue)
       THEN /\ threads' = Goto(t, "return")
            /\ UNCHANGED history
       ELSE /\ threads' = Goto(t, "line69")
            /\ history' = [history EXCEPT !.events = <<>>]
    /\ UNCHANGED <<cls_instance, rlock>>
    /\ UNCHANGED designvars

\* JoinableQueue.join returns once no task is unfinished
JoinReturns(queue) == queue.items = <<>>

\* line 69: queue.join()
Line69(t) ==
    /\ At(t, "line69")
    /\ JoinReturns(cls_instance.queue)
    /\ history' = [history EXCEPT !.events =
          Append(@, IF cls_instance.queue.items = <<>> THEN "drained"
                    ELSE "pending")]
    /\ threads' = Goto(t, "line73")
    /\ UNCHANGED <<cls_instance, rlock>>
    /\ UNCHANGED designvars

\* lines 72-73: queue.put of the teardown message
Line73(t) ==
    /\ At(t, "line73")
    /\ cls_instance' = [cls_instance EXCEPT !.queue.items = Append(@, "teardown")]
    /\ history' = [history EXCEPT !.events = Append(@, "sent")]
    /\ threads' = Goto(t, "line76")
    /\ UNCHANGED rlock
    /\ UNCHANGED designvars

\* line 76: worker.join(1.0) returns when the worker has exited or after
\* one second, whichever comes first
Line76(t) ==
    /\ At(t, "line76")
    /\ threads' = Goto(t, "line78")
    /\ UNCHANGED <<cls_instance, rlock, history>>
    /\ UNCHANGED designvars

\* line 78: queue.close()
Line78(t) ==
    /\ At(t, "line78")
    /\ cls_instance' = [cls_instance EXCEPT !.queue.closed = TRUE]
    /\ threads' = Goto(t, "line80")
    /\ UNCHANGED <<rlock, history>>
    /\ UNCHANGED designvars

\* line 80
Line80(t) ==
    /\ At(t, "line80")
    /\ cls_instance' = [cls_instance EXCEPT !.queue = NullQueue]
    /\ history' = [history EXCEPT !.events = Append(@, "queue_reset")]
    /\ threads' = Goto(t, "line81")
    /\ UNCHANGED rlock
    /\ UNCHANGED designvars

\* line 81
Line81(t) ==
    /\ At(t, "line81")
    /\ cls_instance' = [cls_instance EXCEPT !.worker = None]
    /\ history' = [history EXCEPT !.events = Append(@, "worker_reset")]
    /\ threads' = Goto(t, "done")
    /\ UNCHANGED rlock
    /\ UNCHANGED designvars

\* the end of the with block of line 58 after line 81
TeardownDone(t) ==
    /\ At(t, "done")
    /\ rlock' = 0
    /\ history' = [history EXCEPT !.completed = @ + 1, !.since = 0]
    /\ threads' = Return(t)
    /\ UNCHANGED cls_instance
    /\ UNCHANGED designvars

\* the return of line 61 or line 66 leaves the with block
TeardownReturn(t) ==
    /\ At(t, "return")
    /\ rlock' = 0
    /\ threads' = Return(t)
    /\ UNCHANGED <<cls_instance, history>>
    /\ UNCHANGED designvars

\* the worker process (line 53: run_worker on the queue) finishes the task
\* at the head of its queue and exits on the teardown message
TaskDone ==
    /\ cls_instance # None
    /\ cls_instance.worker # None
    /\ cls_instance.worker.started
    /\ ~cls_instance.worker.exited
    /\ cls_instance.queue.items # <<>>
    /\ cls_instance' = [cls_instance EXCEPT
          !.queue.items = Tail(@),
          !.worker.exited = Head(cls_instance.queue.items) = "teardown"]
    /\ UNCHANGED <<rlock, threads, history>>
    /\ UNCHANGED designvars

\* a log handler that holds the queue of logging_args (lines 88-92) puts a
\* record on it; no lock is taken
Put ==
    /\ cls_instance # None
    /\ IsJoinableQueue(cls_instance.queue)
    /\ ~cls_instance.queue.closed
    /\ history.puts < MaxMessages
    /\ cls_instance' = [cls_instance EXCEPT !.queue.items = Append(@, "record")]
    /\ history' = [history EXCEPT !.puts = @ + 1]
    /\ UNCHANGED <<rlock, threads>>
    /\ UNCHANGED designvars

NextLog ==
    \/ \E t \in Threads :
          \/ Call(t)
          \/ Line39(t) \/ Line40(t) \/ Line41(t) \/ Line43(t) \/ Line44(t)
          \/ Line49(t) \/ Line50(t) \/ Line52(t) \/ Line54(t) \/ Line55(t)
          \/ Line58(t) \/ Line59(t) \/ Line63(t) \/ Line69(t) \/ Line73(t)
          \/ Line76(t) \/ Line78(t) \/ Line80(t) \/ Line81(t)
          \/ TeardownDone(t) \/ TeardownReturn(t)
    \/ TaskDone
    \/ Put

SpecLog == InitLog /\ [][NextLog]_vars

----------------------------------------------------------------------------
(* Properties of group_design                                              *)

Returned == pc \in {"returned", "returned_fallback"}

\* the ids of the spreadsheet as _prepare_data_frame indexes them
TableIds == {NormalizeIds(spreadsheet)[i].id : i \in DOMAIN spreadsheet}

NoIdVariable == \A i \in DOMAIN variabledicts : variabledicts[i].type # "id"
AbsentSubject == \E k \in DOMAIN subjects : subjects[k] \notin TableIds

\* the T entries of a contrasts list, those inside F entries included
AllTEntries(contrasts) ==
    {contrasts[i] : i \in {j \in DOMAIN contrasts : contrasts[j].type = "T"}}
    \cup UNION {Range(contrasts[i].tcontrasts) : i \in DOMAIN contrasts}

FEntries(contrasts) ==
    {contrasts[i] : i \in {j \in DOMAIN contrasts : contrasts[j].type = "F"}}

\* the entries a reader of the numbers and names lists sees: the F entries
\* and the T entries that belong to no F entry
Visible(contrasts) ==
    SelectSeq(contrasts, LAMBDA e :
        \/ e.type = "F"
        \/ \A f \in FEntries(contrasts) : e \notin Range(f.tcontrasts))

\* C1: whenever group_design returns, every column of the regressor table
\* has len(subjects) values and the i-th value is the one of subjects[i]
\* (the i-th row of the design matrix is the row of subjects[i]).
C1_RowsAlignWithSubjects ==
    /\ Returned =>
          \A c \in Range(result.regressors.columns) :
              Len(result.regressors.values[c]) = Len(subjects)
    /\ pc = "returned" =>
          /\ Len(dmat.rows) = Len(subjects)
          /\ \A i \in DOMAIN dmat.rows : dmat.rows[i].id = subjects[i]

\* C2: a returned result whose design matrix has at least as many columns
\* as there are subjects is exactly the intercept-only result, and a result
\* of the normal path has fewer design columns than design rows.
C2_FallbackExact ==
    /\ (Returned /\ Len(dmat.columns) >= Len(subjects)) =>
          /\ result.regressors.columns = << <<"i", "n", "t", "e", "r", "c", "e", "p", "t">> >>
          /\ result.regressors.values =
                (<<"i", "n", "t", "e", "r", "c", "e", "p", "t">>
                    :> [i \in 1..Len(subjects) |-> 1])
          /\ Len(result.contrasts) = 1
          /\ result.contrasts[1].name = <<"i", "n", "t", "e", "r", "c", "e", "p", "t">>
          /\ result.contrasts[1].type = "T"
          /\ result.contrasts[1].columns = << <<"i", "n", "t", "e", "r", "c", "e", "p", "t">> >>
          /\ result.contrasts[1].values = << <<1, 1>> >>
          /\ result.contrast_numbers = << <<"0", "1">> >>
          /\ result.contrast_names = << <<"i", "n", "t", "e", "r", "c", "e", "p", "t">> >>
    /\ pc = "returned" => Len(dmat.columns) < Len(dmat.rows)

\* a fallback whose design has several columns, as many as there are subjects
C2_Witness ==
    /\ pc = "returned_fallback"
    /\ Len(dmat.columns) > 1
    /\ Len(dmat.columns) >= Len(subjects)

\* C4: in every result the numbers and the names have the length of the
\* list of visible contrasts, numbers[i] is the two-digit decimal of i and
\* names[i] is the name of the i-th visible contrast.
C4_NumbersAndNamesAligned ==
    Returned =>
        LET visible == Visible(result.contrasts)
        IN  /\ Len(result.contrast_numbers) = Len(visible)
            /\ Len(result.contrast_names) = Len(visible)
            /\ \A i \in DOMAIN visible :
                  /\ result.contrast_numbers[i] = <<Digit(i \div 10), Digit(i % 10)>>
                  /\ result.contrast_names[i] = visible[i].name

\* a result of the normal path with an F group after two single T contrasts
C4_Witness ==
    /\ pc = "returned"
    /\ Len(result.contrast_names) = 3
    /\ Len(result.contrasts) = 5
    /\ result.contrasts[5].type = "F"

\* C5: in every result of the normal path each T contrast, the constituents
\* of the F groups included, has the column names of the design matrix in
\* its order and as many coefficients as the design has columns.
C5_ContrastsOverDesignColumns ==
    pc = "returned" =>
        \A e \in AllTEntries(result.contrasts) :
            /\ e.columns = result.regressors.columns
            /\ Len(e.values) = Len(dmat.columns)
            /\ Len(e.columns) = Len(dmat.rows[1].vals)

\* a result with a baseline T contrast, an LSMeans T contrast and an F group
C5_Witness ==
    /\ pc = "returned"
    /\ \E i \in DOMAIN contrastdicts : contrastdicts[i].type = "t"
    /\ FEntries(result.contrasts) # {}
    /\ Len(dmat.columns) = 3

\* C6: group_design raises exactly when no variable has type id or a
\* requested subject is absent from the table, and then returns nothing.
C6_OnlyTwoHardFailures ==
    /\ (pc # "start" /\ (NoIdVariable \/ AbsentSubject)) =>
          (pc = "raised" /\ ~result.ok)
    /\ pc = "raised" => (NoIdVariable \/ AbsentSubject)

\* the values of a declared covariate over the requested subjects, missing
\* cells apart
ObservedValues(name) ==
    LET raw == NormalizeIds(spreadsheet)
    IN  {raw[i].cells[name] :
            i \in {j \in DOMAIN raw : raw[j].id \in Range(subjects)}} \ {NA}

Covariates ==
    {variabledicts[i].name :
        i \in {j \in DOMAIN variabledicts : variabledicts[j].type # "id"}}

\* C7: a covariate with at most one distinct non-missing value among the
\* requested subjects is not a column of the data frame once the model is
\* expanded, and no term or column of the design derives from it.
C7_ZeroVarianceRemoved ==
    pc \in {"designed", "contrasted", "returned", "returned_fallback"} =>
        \A name \in Covariates :
            Cardinality(ObservedValues(name)) <= 1 =>
                /\ name \notin Range(dataframe.columns)
                /\ \A i \in DOMAIN dmat.design_info :
                      name \notin Range(dmat.design_info[i].term)

\* C9: in a result of the normal path the baseline contrast of the intercept
\* is named "intercept", the baseline of another term is named by its
\* capitalized variable name, and a contrast of type t carries the name of
\* its spec (as written or capitalized).
C9_ContrastNaming ==
    pc = "returned" =>
        /\ \A i \in DOMAIN dmat.design_info :
              LET expected ==
                      IF dmat.design_info[i].term = <<>>
                      THEN <<"i", "n", "t", "e", "r", "c", "e", "p", "t">>
                      ELSE Capitalize(dmat.design_info[i].name)
              IN  expected \in Range(result.contrast_names)
        /\ \A i \in DOMAIN contrastdicts :
              contrastdicts[i].type = "t" =>
                  \/ contrastdicts[i].name \in Range(result.contrast_names)
                  \/ Capitalize(contrastdicts[i].name) \in Range(result.contrast_names)

----------------------------------------------------------------------------
(* Properties of _make_contrasts_list                                      *)

\* the number of entries a block contributes: its rows, and one F entry
\* when it has several rows
EntriesOfBlock(b) == IF Len(b.rows) > 1 THEN Len(b.rows) + 1 ELSE 1

\* C3: for every block of k > 1 rows the contrasts list holds k consecutive
\* T contrasts, named {Name}_{0}, ..., {Name}_{k-1} and carrying the rows of
\* the block, directly followed by an F contrast of exactly these k entries;
\* nothing else is appended, and every block adds one name and one number.
C3_FGroup ==
    pc = "listed" =>
        /\ \A j \in DOMAIN contrast_matrices :
              LET b == contrast_matrices[j]
                  k == Len(b.rows)
              IN  k > 1 =>
                    \E p \in 1..(Len(result.contrasts) - k) :
                        /\ \A r \in 1..k :
                              /\ result.contrasts[p + r - 1].type = "T"
                              /\ result.contrasts[p + r - 1].name =
                                    Capitalize(b.name) \o <<"_", Digit(r - 1)>>
                              /\ result.contrasts[p + r - 1].values = b.rows[r]
                        /\ result.contrasts[p + k].type = "F"
                        /\ result.contrasts[p + k].name = Capitalize(b.name)
                        /\ result.contrasts[p + k].tcontrasts =
                              [r \in 1..k |-> result.contrasts[p + r - 1]]
        /\ Len(result.contrasts) =
              SumSeq([j \in DOMAIN contrast_matrices |-> EntriesOfBlock(contrast_matrices[j])])
        /\ Len(result.contrast_names) = Len(contrast_matrices)
        /\ Len(result.contrast_numbers) = Len(contrast_matrices)

\* a list with a block of three rows between other blocks
C3_Witness ==
    /\ pc = "listed"
    /\ Len(contrast_matrices) = 3
    /\ Len(contrast_matrices[2].rows) = 3
    /\ Len(contrast_matrices[3].rows) = 1

----------------------------------------------------------------------------
(* Properties of the LSMeans contrasts                                     *)

RECURSIVE SetToSeq(_)
SetToSeq(S) ==
    IF S = {} THEN <<>>
    ELSE LET x == CHOOSE y \in S : TRUE IN <<x>> \o SetToSeq(S \ {x})


\* the levels observed for a column of the data frame
ObservedLevels(column) == {dataframe.rows[i].cells[column] : i \in DOMAIN dataframe.rows}

\* the cells the reference grid gives a column: 0.0 for a continuous
\* covariate, every observed level for a categorical one
ReferenceCells(column) ==
    IF column \in dataframe.numeric THEN {Val(0)} ELSE ObservedLevels(column)

\* the reference grid as a set: the cross-product of the reference cells
RECURSIVE GridOver(_)
GridOver(columns) ==
    IF columns = {} THEN {<<>>}
    ELSE LET c == CHOOSE x \in columns : TRUE
         IN  {(c :> v) @@ g : v \in ReferenceCells(c), g \in GridOver(columns \ {c})}

ReferenceGrid == GridOver(Range(dataframe.columns))

\* the mean of column c of the reference design rows at one level of V
LevelMean(V, level, c) ==
    LET at == SetToSeq({g \in ReferenceGrid : g[V].v = level})
        total == RatSum([i \in DOMAIN at |->
                     RatOfInt(EncodeRow(dmat.design_info, dataframe, at[i])[c])])
    IN  RatMul(total, <<1, Len(at)>>)

\* the weighted sum of the level means, over the weighted levels that are observed
ExpectedContrast(cd) ==
    LET V == cd.variable[1]
        weighted == SetToSeq({kv \in Range(cd.values) : Val(kv[1]) \in ObservedLevels(V)})
    IN  [c \in DOMAIN dmat.columns |->
            RatSum([i \in DOMAIN weighted |->
                RatMul(RatOfInt(weighted[i][2]), LevelMean(V, weighted[i][1], c))])]

\* C8: in a result of the normal path, the contrast emitted for a spec of
\* type t over a categorical variable V is one T entry whose vector is the
\* sum over the weighted and observed levels of V of the weight times the
\* mean of the reference design rows at that level.
C8_LsmeansVector ==
    pc = "returned" =>
        \A i \in DOMAIN contrastdicts :
            contrastdicts[i].type = "t" =>
                \E k \in DOMAIN result.contrasts :
                    /\ result.contrasts[k].type = "T"
                    /\ result.contrasts[k].name = Capitalize(contrastdicts[i].name)
                    /\ result.contrasts[k].values = ExpectedContrast(contrastdicts[i])

\* a result of the normal path whose spec weights an unobserved level and
\* leaves an observed level without weight, with a mean over two reference rows
C8_Witness ==
    /\ pc = "returned"
    /\ \E i \in DOMAIN contrastdicts :
          /\ contrastdicts[i].type = "t"
          /\ contrastdicts[i].values = Weights2
          /\ Val(LevelA) \in ObservedLevels(GroupName)
    /\ \E k \in DOMAIN result.contrasts :
          /\ result.contrasts[k].type = "T"
          /\ \E c \in DOMAIN result.contrasts[k].values :
                result.contrasts[k].values[c] = <<1, 2>>

----------------------------------------------------------------------------
(* Properties of the scenario of ten subjects                              *)

UnitVector(n, at) == [c \in 1..n |-> IF c = at THEN <<1, 1>> ELSE <<0, 1>>]

WithAge ==
    SelectSeq(subjects, LAMBDA sub :
        \E i \in DOMAIN spreadsheet :
            /\ ReplaceSub(spreadsheet[i].id) = sub
            /\ ~spreadsheet[i].cells[AgeName].na)

----------------------------------------------------------------------------
(* Properties of the id normalization                                      *)

\* C11: if every raw id begins with "sub-", each normalized id is the raw
\* id without that one leading "sub-" and with the remainder unchanged;
\* otherwise every id is left unchanged; distinct raw ids stay distinct.
C11_IdNormalization ==
    pc = "indexed" =>
        /\ DOMAIN dataframe = DOMAIN spreadsheet
        /\ IF \A i \in DOMAIN spreadsheet : Head(spreadsheet[i].id) = "sub-"
           THEN \A i \in DOMAIN spreadsheet :
                    dataframe[i].id = Tail(spreadsheet[i].id)
           ELSE \A i \in DOMAIN spreadsheet :
                    dataframe[i].id = spreadsheet[i].id
        /\ \A i, j \in DOMAIN spreadsheet :
              spreadsheet[i].id # spreadsheet[j].id =>
                  dataframe[i].id # dataframe[j].id

----------------------------------------------------------------------------
(* Properties of the order of the contrasts list                           *)

SingleRow(j) == Len(contrast_matrices[j].rows) = 1

SinglesUpTo(j) == Cardinality({i \in 1..j : SingleRow(i)})

MultisUpTo(j) == Cardinality({i \in 1..j : ~SingleRow(i)})

\* the rank of input block j when all single-row blocks go first
TFirstRank(j) ==
    IF SingleRow(j) THEN SinglesUpTo(j)
    ELSE SinglesUpTo(Len(contrast_matrices)) + MultisUpTo(j)

\* the place of the first entry of input block j in the T-first order
TFirstEntry(j) ==
    IF SingleRow(j) THEN SinglesUpTo(j)
    ELSE SinglesUpTo(Len(contrast_matrices))
         + SumSeq([i \in 1..(j - 1) |->
                      IF SingleRow(i) THEN 0
                      ELSE Len(contrast_matrices[i].rows) + 1])
         + 1

\* C12: whatever the order of the input blocks, the entries of the
\* single-row blocks come first in the contrasts list and in the names list,
\* those of the multi-row blocks after them, each class in input order; the
\* number of a contrast is its rank in that order.
C12_TFirstOrder ==
    pc = "listed" =>
        \A j \in DOMAIN contrast_matrices :
            LET b == contrast_matrices[j]
                rank == TFirstRank(j)
                first == TFirstEntry(j)
            IN  /\ rank \in DOMAIN result.contrast_names
                /\ result.contrast_names[rank] = Capitalize(b.name)
                /\ result.contrast_numbers[rank] =
                      <<Digit(rank \div 10), Digit(rank % 10)>>
                /\ first \in DOMAIN result.contrasts
                /\ result.contrasts[first].type = "T"
                /\ result.contrasts[first].values = b.rows[1]
                /\ result.contrasts[first].name =
                      IF SingleRow(j) THEN Capitalize(b.name)
                      ELSE Capitalize(b.name) \o <<"_", "0">>
                /\ \A i \in DOMAIN contrast_matrices :
                      (SingleRow(i) /\ ~SingleRow(j)) =>
                          \A e \in first..(first + Len(b.rows)) :
                              /\ TFirstEntry(i) < e
                              /\ result.contrasts[e].name
                                    \in {Capitalize(b.name)}
                                        \cup {TName(Capitalize(b.name), r - 1) :
                                                  r \in DOMAIN b.rows}

\* a multi-row block given before two single-row blocks of other names: the
\* first input block is numbered 03
C12_Witness ==
    /\ pc = "listed"
    /\ Len(contrast_matrices) = 3
    /\ ~SingleRow(1) /\ SingleRow(2) /\ SingleRow(3)
    /\ contrast_matrices[1].name = GroupName
    /\ contrast_matrices[2].name = AvBName
    /\ contrast_matrices[3].name = LowerInterceptName
    /\ result.contrast_names[3] = Capitalize(GroupName)
    /\ result.contrast_numbers[3] = <<"0", "3">>
    /\ result.contrasts[1].name = Capitalize(AvBName)

----------------------------------------------------------------------------
(* Properties of the logging context                                       *)

TeardownEvents == <<"drained", "sent", "queue_reset", "worker_reset">>

InSetupBody(t) == threads[t].pc \in {"line49", "line50", "line52", "line54", "line55"}

InTeardownBody(t) ==
    threads[t].pc \in {"line69", "line73", "line76", "line78", "line80",
                       "line81", "done"}

\* C13: under every interleaving of instance, setup_worker and
\* teardown_worker calls, at most one context is ever created and it exists
\* once a call of instance has reached its return; while the lock is free the
\* context has a worker exactly if its queue is a JoinableQueue; at most one
\* worker is started since the last completed teardown; a teardown that
\* finds no worker returns with the context as it found it, and none
\* completes before a worker was started; a teardown of a running worker
\* sees the queue drained, then sends the teardown message, then resets the
\* queue and the worker, and ends in the state (NullQueue, no worker).
C13_SingletonLifecycle ==
    /\ history.created <= 1
    /\ (cls_instance # None) <=> (history.created = 1)
    /\ \A t \in Threads :
          (At(t, "line44") \/ InSetupBody(t)) => cls_instance # None
    /\ (rlock = 0 /\ cls_instance # None) =>
          ((cls_instance.worker # None) <=> IsJoinableQueue(cls_instance.queue))
    /\ \A t \in Threads :
          (~At(t, "idle") /\ threads[t].pc \notin {"line39", "line40", "line44",
                                                  "line49", "line58"})
              => rlock = t
    /\ history.since <= 1
    /\ history.started <= history.completed + 1
    /\ \A t \in Threads :
          At(t, "return") =>
              /\ cls_instance = threads[t].entry
              /\ cls_instance # None =>
                    /\ cls_instance.worker = None
                    /\ cls_instance.queue = NullQueue
    /\ history.started = 0 =>
          /\ history.completed = 0
          /\ \A t \in Threads : ~InTeardownBody(t)
          /\ cls_instance # None => "teardown" \notin Range(cls_instance.queue.items)
    /\ \A t \in Threads :
          InTeardownBody(t) =>
              /\ threads[t].entry.worker # None
              /\ threads[t].entry.worker.started
              /\ \E n \in 0..Len(TeardownEvents) :
                    history.events = SubSeq(TeardownEvents, 1, n)
              /\ At(t, "line73") => history.events = <<"drained">>
              /\ At(t, "done") =>
                    /\ history.events = TeardownEvents
                    /\ cls_instance = NewContext

\* a record was logged, a teardown of the running worker has completed, and
\* a later setup_worker has started the second worker
C13_Witness ==
    /\ history.created = 1
    /\ history.puts >= 1
    /\ history.completed >= 1
    /\ history.started = 2
    /\ history.events = TeardownEvents
    /\ rlock = 0
    /\ cls_instance.worker # None
    /\ IsJoinableQueue(cls_instance.queue)

====
